---- MODULE Spec2Model ----
(***************************************************************************)
(* Model of the streaming-conversation handler of chariot-node             *)
(* (class Chariot: streamConversation, startConversationStream,            *)
(* readBrowserStream, readNodeStream, handleServerSentEvent).              *)
(*                                                                         *)
(* Text is a sequence of one-character strings.  A transport chunk is a    *)
(* sequence of bytes: an ASCII byte is written as its character, the       *)
(* two-byte character "e'" is the pair <<"C3", "A9">>.                     *)
(*                                                                         *)
(* JSON documents are written in a short notation that keeps the grammar   *)
(* of the payloads the API sends (an object with an optional status and an *)
(* optional text member, or the literal null):                             *)
(*    {      }      the braces of the object                               *)
(*    S D E X       "status":"STREAMING" / "DONE" / "ERROR" / "PING"       *)
(*    1 2 e'        "text":"1" / "2" / "e'"                                *)
(*    n             null                                                   *)
(* JSONparse accepts exactly the well-formed documents of this notation    *)
(* (with surrounding whitespace) and throws on everything else.            *)
(***************************************************************************)
EXTENDS Integers, Sequences, FiniteSets, TLC

VARIABLES
    env,        \* isBrowserEnvironment(): "browser" or "node"
    sc,         \* position of streamConversation / of the caller awaiting it
    kick,       \* position of the task kicked off by startConversationStream
    setup,      \* how the fetch of startConversationStream settled
    body,       \* state of response.body as the reader adapter sees it
    aborted,    \* controller.signal.aborted
    microtasks, \* promise reaction jobs, in FIFO order
    turn,       \* "caller" while caller code runs synchronously
    timers,     \* pending setTimeout(..., 0) callbacks of the cleanup listener
    registry,   \* emitter._events: kind -> listeners in registration order
    emitted,    \* history: every emitter.emit call, in order
    log,        \* history: every listener invocation, in order
    delivered,  \* history: the chunks the transport handed over, in order
    nOn,        \* number of handle.on registrations made by the caller
    nAbort,     \* number of handle.abort() calls
    abortPhase, \* history: value of kick when abort() was first called
    subs,       \* history: per caller listener, its kinds and when it was registered
    uncaught,   \* an exception escaped a callback, or an 'error' event had no handler
    pLines,     \* harnesses only: the lines the input text was built from
    pText,      \* harnesses only: the text handed to handleServerSentEvent, or the
                \* bytes of the body the pull harness reads
    pCut,       \* pull harness only: the number of bytes of the first chunk
    pFed,       \* pull harness only: the texts handed to handleServerSentEvent so far
    turnEnd     \* history: 'end' was emitted earlier in the caller turn that is running

vars == <<env, sc, kick, setup, body, aborted, microtasks, turn, timers, registry,
          emitted, log, delivered, nOn, nAbort, abortPhase, subs, uncaught, pLines,
          pText, pCut, pFed, turnEnd>>

----------------------------------------------------------------------------
(* Bounds *)

MaxChunks == 2
MaxCalls == 3
MaxLines == 3

----------------------------------------------------------------------------
(* Text helpers *)

NL == "\n"
SP == " "
FFFD == "FFFD"

Kinds == {"message", "complete", "error", "end"}

DataPrefix == <<"d", "a", "t", "a", ":">>

RECURSIVE Concat(_)
Concat(ss) == IF ss = <<>> THEN <<>> ELSE Head(ss) \o Concat(Tail(ss))

\* TextDecoder.decode(value) / Buffer.toString(): UTF-8 decoding of one chunk on
\* its own; an incomplete or stray byte of a multi-byte character becomes U+FFFD.
RECURSIVE Decode(_)
Decode(bytes) ==
    IF bytes = <<>> THEN <<>>
    ELSE IF Head(bytes) = "C3"
         THEN IF Len(bytes) >= 2 /\ bytes[2] = "A9"
              THEN <<"e'">> \o Decode(Tail(Tail(bytes)))
              ELSE <<FFFD>> \o Decode(Tail(bytes))
         ELSE IF Head(bytes) = "A9"
              THEN <<FFFD>> \o Decode(Tail(bytes))
              ELSE <<Head(bytes)>> \o Decode(Tail(bytes))

\* The bytes of a text on the wire (UTF-8): the accented letter takes two bytes.
RECURSIVE Encode(_)
Encode(text) ==
    IF text = <<>> THEN <<>>
    ELSE IF Head(text) = "e'" THEN <<"C3", "A9">> \o Encode(Tail(text))
         ELSE <<Head(text)>> \o Encode(Tail(text))

\* String.prototype.split('\n')
RECURSIVE SplitNL(_, _)
SplitNL(s, cur) ==
    IF s = <<>> THEN <<cur>>
    ELSE IF Head(s) = NL THEN <<cur>> \o SplitNL(Tail(s), <<>>)
         ELSE SplitNL(Tail(s), Append(cur, Head(s)))

IsSpace(c) == c \in {SP, NL}

\* String.prototype.trim()
RECURSIVE TrimLeft(_)
TrimLeft(s) == IF s # <<>> /\ IsSpace(Head(s)) THEN TrimLeft(Tail(s)) ELSE s

RECURSIVE TrimRight(_)
TrimRight(s) ==
    IF s # <<>> /\ IsSpace(s[Len(s)]) THEN TrimRight(SubSeq(s, 1, Len(s) - 1)) ELSE s

Trim(s) == TrimRight(TrimLeft(s))

\* String.prototype.startsWith(p)
StartsWith(s, p) == Len(s) >= Len(p) /\ SubSeq(s, 1, Len(p)) = p

\* String.prototype.slice(n)
Slice(s, n) == SubSeq(s, n + 1, Len(s))

StatusOf(c) ==
    CASE c = "S" -> "STREAMING"
      [] c = "D" -> "DONE"
      [] c = "E" -> "ERROR"
      [] c = "X" -> "PING"

StatusChars == {"S", "D", "E", "X"}
TextChars == {"1", "2", "e'"}

\* The values a listener can be handed: a parsed payload, a description string
\* built by a catch block, or nothing (emit('end')).
Payload(st, tx) == [desc |-> "none", cause |-> "none", code |-> 0, status |-> st, text |-> tx]
Description(d, c, n) ==
    [desc |-> d, cause |-> c, code |-> n, status |-> "undefined", text |-> "undefined"]
Undefined == Description("undefined", "none", 0)

\* JSON.parse(text): ok = FALSE stands for the SyntaxError it throws; null = TRUE
\* for the document null, on which reading .status throws a TypeError.
JSONparse(text) ==
    LET t == Trim(text)
        Obj(st, tx) == [ok |-> TRUE, null |-> FALSE, value |-> Payload(st, tx)]
        Bad == [ok |-> FALSE, null |-> FALSE, value |-> Undefined]
    IN
    IF t = <<"n">> THEN [ok |-> TRUE, null |-> TRUE, value |-> Undefined]
    ELSE IF Len(t) >= 2 /\ t[1] = "{" /\ t[Len(t)] = "}"
    THEN LET inner == SubSeq(t, 2, Len(t) - 1) IN
         CASE inner = <<>> -> Obj("undefined", "undefined")
           [] Len(inner) = 1 /\ inner[1] \in StatusChars ->
                Obj(StatusOf(inner[1]), "undefined")
           [] Len(inner) = 1 /\ inner[1] \in TextChars ->
                Obj("undefined", inner[1])
           [] Len(inner) = 2 /\ inner[1] \in StatusChars /\ inner[2] \in TextChars ->
                Obj(StatusOf(inner[1]), inner[2])
           [] OTHER -> Bad
    ELSE Bad

Ev(k, d) == [kind |-> k, data |-> d]

\* handleServerSentEvent, line 160: split on '\n' and drop the lines that are
\* empty after trimming.
SelectLines(ls) == SelectSeq(ls, LAMBDA l : Trim(l) # <<>>)
EventLines(event) == SelectLines(SplitNL(event, <<>>))

\* Classify that treats an ERROR or DONE frame as the end of the stream.
ClassifyTerminal(data) ==
    CASE data.status = "STREAMING" -> <<Ev("message", data)>>
      [] data.status = "DONE" -> <<Ev("complete", data), Ev("end", Undefined)>>
      [] data.status = "ERROR" -> <<Ev("error", data), Ev("end", Undefined)>>
      [] OTHER -> <<>>

\* Classify with a default branch that reports every other frame as a message.
ClassifyDefaultMessage(data) ==
    CASE data.status = "STREAMING" -> <<Ev("message", data)>>
      [] data.status = "DONE" -> <<Ev("complete", data)>>
      [] data.status = "ERROR" -> <<Ev("error", data)>>
      [] OTHER -> <<Ev("message", data)>>

\* handleServerSentEvent, lines 168-178: the switch on data.status.
Classify(data) ==
    CASE data.status = "STREAMING" -> <<Ev("message", data)>>
      [] data.status = "DONE" -> <<Ev("complete", data)>>
      [] data.status = "ERROR" -> <<Ev("error", data)>>
      [] OTHER -> <<>>

\* HandleLines collecting the events of a chunk last line first.
RECURSIVE HandleLinesLastFirst(_)
HandleLinesLastFirst(ls) ==
    IF ls = <<>> THEN [events |-> <<>>, thrown |-> "none"]
    ELSE LET line == Head(ls) IN
         IF StartsWith(line, DataPrefix)
         THEN LET p == JSONparse(Slice(line, 5)) IN
              IF ~p.ok THEN [events |-> <<>>, thrown |-> "SyntaxError"]
              ELSE IF p.null THEN [events |-> <<>>, thrown |-> "TypeError"]
              ELSE LET rest == HandleLinesLastFirst(Tail(ls)) IN
                   [events |-> rest.events \o Classify(p.value), thrown |-> rest.thrown]
         ELSE HandleLinesLastFirst(Tail(ls))

\* HandleLines without the test of line 164: every line is parsed as a frame.
RECURSIVE HandleLinesNoPrefixTest(_)
HandleLinesNoPrefixTest(ls) ==
    IF ls = <<>> THEN [events |-> <<>>, thrown |-> "none"]
    ELSE LET p == JSONparse(Slice(Head(ls), 5)) IN
         IF ~p.ok THEN [events |-> <<>>, thrown |-> "SyntaxError"]
         ELSE IF p.null THEN [events |-> <<>>, thrown |-> "TypeError"]
         ELSE LET rest == HandleLinesNoPrefixTest(Tail(ls)) IN
              [events |-> Classify(p.value) \o rest.events, thrown |-> rest.thrown]

\* handleServerSentEvent, lines 163-180: the loop over the lines.  The result is
\* the events emitted, in order, and the name of the exception that left the loop
\* ("none" when it ran to its end): JSON.parse throws a SyntaxError, reading
\* .status of null a TypeError.  Events emitted before the exception stay emitted.
RECURSIVE HandleLines(_)
HandleLines(ls) ==
    IF ls = <<>> THEN [events |-> <<>>, thrown |-> "none"]
    ELSE LET line == Head(ls) IN
         IF StartsWith(line, DataPrefix)
         THEN LET p == JSONparse(Slice(line, 5)) IN
              IF ~p.ok THEN [events |-> <<>>, thrown |-> "SyntaxError"]
              ELSE IF p.null THEN [events |-> <<>>, thrown |-> "TypeError"]
              ELSE LET rest == HandleLines(Tail(ls)) IN
                   [events |-> Classify(p.value) \o rest.events, thrown |-> rest.thrown]
         ELSE HandleLines(Tail(ls))

handleServerSentEvent(event) == HandleLines(EventLines(event))

----------------------------------------------------------------------------
(* What the transport can send *)

LineS1 == DataPrefix \o <<"{", "S", "1", "}">>
LineS2 == DataPrefix \o <<SP, "{", "S", "2", "}">>
LineD == DataPrefix \o <<"{", "D", "}">>
LineE == DataPrefix \o <<"{", "E", "2", "}">>
LinePing == DataPrefix \o <<"{", "X", "1", "}">>
LineNoStatus == DataPrefix \o <<"{", "1", "}">>
LineCut == DataPrefix \o <<"{", "S">>
LineNull == DataPrefix \o <<"n">>
LineEvent == <<"e", "v", "e", "n", "t", ":", "m">>
LineBlank == <<SP>>
LineAccent == DataPrefix \o <<"{", "S", "e'", "}">>
LineNote == <<":", "e'">>

\* The chunks of the lifecycle model: a STREAMING frame, a DONE frame, and a batch
\* of an ERROR frame, a STREAMING frame and a frame the chunk boundary cuts short.
ChunkPool == << LineS1 \o <<NL>>,
                LineD \o <<NL>>,
                LineE \o <<NL>> \o LineS2 \o <<NL>> \o LineCut >>

ChunkIds == 1..Len(ChunkPool)

\* What the reader adapter hands to handleServerSentEvent for chunk c:
\* decoder.decode(value) (line 122) or event.toString() (line 160).
ChunkText(c) == Decode(ChunkPool[c])

----------------------------------------------------------------------------
(* The emitter *)

CleanupListener == 0
Listeners == 1..MaxCalls

\* DeliveriesOf of an emitter that invokes the listener registered last first.
DeliveriesOfNewestFirst(reg, ev) ==
    [i \in 1..Len(reg[ev.kind]) |->
        [kind |-> ev.kind, data |-> ev.data,
         to |-> reg[ev.kind][Len(reg[ev.kind]) + 1 - i]]]

\* emitter.emit(kind, data): the listeners of the kind are invoked in registration
\* order; nothing happens when there is none (eventemitter3 does not throw on an
\* unheard 'error').
DeliveriesOf(reg, ev) ==
    [i \in 1..Len(reg[ev.kind]) |-> [kind |-> ev.kind, data |-> ev.data, to |-> reg[ev.kind][i]]]

RECURSIVE DeliveriesOfAll(_, _)
DeliveriesOfAll(reg, evs) ==
    IF evs = <<>> THEN <<>>
    ELSE DeliveriesOf(reg, Head(evs)) \o DeliveriesOfAll(reg, Tail(evs))

\* Lines 43-47: each invocation of the cleanup listener sets one zero-delay timer.
TimersOf(ds) == Len(SelectSeq(ds, LAMBDA d : d.to = CleanupListener))

\* DoEmit with a cleanup listener that removes the listeners at once, so that the
\* 'end' listeners registered behind it are not invoked.
DoEmitCleanupAtOnce(evs) ==
    LET all == DeliveriesOfAll(registry, evs)
        ds == SelectSeq(all, LAMBDA d : d.kind # "end" \/ d.to = CleanupListener
                                          \/ CleanupListener \notin
                                               {registry["end"][i] : i \in 1..Len(registry["end"])})
    IN
    /\ emitted' = emitted \o evs
    /\ log' = log \o ds
    /\ timers' = timers + TimersOf(ds)

\* A run of emitter.emit calls made in one synchronous stretch of code.
DoEmit(evs) ==
    LET ds == DeliveriesOfAll(registry, evs) IN
    /\ emitted' = emitted \o evs
    /\ log' = log \o ds
    /\ timers' = timers + TimersOf(ds)

EndEvent == Ev("end", Undefined)

\* StartCatch without its second emit.
StartCatchNoEnd(cause, code) ==
    << Ev("error", Description("Request failed", cause, code)) >>

\* Lines 95-98: the catch of the kicked-off task.
StartCatch(cause, code) ==
    << Ev("error", Description("Request failed", cause, code)), EndEvent >>

\* ReadCatch without the test of line 128.
ReadCatchAll(name) ==
    << Ev("error", Description("Failed to read stream", name, 0)), EndEvent >>

\* ReadCatch that throws the error on after reporting it, into the catch of the
\* kicked-off task.
ReadCatchRethrow(name) ==
    IF name = "AbortError" THEN <<>>
    ELSE << Ev("error", Description("Failed to read stream", name, 0)), EndEvent >>
         \o StartCatch(name, 0)

\* Lines 127-132: the catch of readBrowserStream.
ReadCatch(name) ==
    IF name = "AbortError" THEN <<>>
    ELSE << Ev("error", Description("Failed to read stream", name, 0)), EndEvent >>

----------------------------------------------------------------------------
(* The lifecycle of one streamConversation call *)

NoSetup(how) == [how |-> how, status |-> 0]

\* The responses the server can give: 200 with a body, an error status, 204 without body.
Responses ==
    { [ok |-> TRUE, hasBody |-> TRUE, status |-> 200],
      [ok |-> FALSE, hasBody |-> TRUE, status |-> 500],
      [ok |-> FALSE, hasBody |-> TRUE, status |-> 404],
      [ok |-> TRUE, hasBody |-> FALSE, status |-> 204] }

EmptyRegistry == [k \in Kinds |-> <<>>]

Init ==
    /\ env \in {"browser", "node"}
    /\ sc = "idle"
    /\ kick = "none"
    /\ setup = NoSetup("none")
    /\ body = "none"
    /\ aborted = FALSE
    /\ microtasks = <<>>
    /\ turn = "none"
    /\ timers = 0
    /\ registry = EmptyRegistry
    /\ emitted = <<>>
    /\ log = <<>>
    /\ delivered = <<>>
    /\ nOn = 0
    /\ nAbort = 0
    /\ abortPhase = "none"
    /\ subs = <<>>
    /\ uncaught = FALSE
    /\ pLines = <<>>
    /\ pText = <<>>
    /\ pCut = 0
    /\ pFed = <<>>
    /\ turnEnd = FALSE

NoEmit == UNCHANGED <<emitted, log, timers>>

\* A promise reaction job runs when no code is running and it is first in the queue.
Job(name) == turn = "none" /\ microtasks # <<>> /\ Head(microtasks) = name

\* A timer or I/O callback runs when no code is running and no job is queued.
Macrotask == turn = "none" /\ microtasks = <<>>

\* Lines 33-40 and 64-68, 101: the caller calls streamConversation, which runs up to
\* its await: startConversationStream queues the kick-off job and returns the
\* controller, and the await queues the rest of streamConversation behind it.
StreamConversation ==
    /\ sc = "idle" /\ Macrotask
    /\ sc' = "awaiting"
    /\ kick' = "queued"
    /\ microtasks' = <<"kickoff", "resume">>
    /\ NoEmit
    /\ UNCHANGED <<env, setup, body, aborted, turn, registry, delivered, nOn, nAbort,
                   abortPhase, uncaught, subs, pLines, pText, pCut, pFed, turnEnd>>

\* Lines 69-81, 95-98: the kick-off job, when building the request throws
\* (require, or JSON.stringify of the conversation).
KickoffThrows ==
    /\ Job("kickoff")
    /\ microtasks' = Tail(microtasks)
    /\ setup' = NoSetup("threw")
    /\ kick' = "done"
    /\ DoEmit(StartCatch("TypeError", 0))
    /\ UNCHANGED <<env, sc, body, aborted, turn, registry, delivered, nOn, nAbort,
                   abortPhase, uncaught, subs, pLines, pText, pCut, pFed, turnEnd>>

\* KickoffFetch of a startConversationStream that returns the controller only when
\* the request has settled (here: failed).
KickoffFetchAwaited ==
    /\ Job("kickoff")
    /\ microtasks' = Tail(microtasks)
    /\ setup' = NoSetup("neterr")
    /\ kick' = "done"
    /\ DoEmit(StartCatch("TypeError", 0))
    /\ UNCHANGED <<env, sc, body, aborted, turn, registry, delivered, nOn, nAbort,
                   abortPhase, uncaught, subs, pLines, pText, pCut, pFed, turnEnd>>

\* Lines 69-81: the kick-off job calls fetch and is suspended on its promise.
KickoffFetch ==
    /\ Job("kickoff")
    /\ microtasks' = Tail(microtasks)
    /\ setup' = NoSetup("pending")
    /\ kick' = "fetch"
    /\ NoEmit
    /\ UNCHANGED <<env, sc, body, aborted, turn, registry, delivered, nOn, nAbort,
                   abortPhase, uncaught, subs, pLines, pText, pCut, pFed, turnEnd>>

\* Lines 69-81: fetch returns a promise that is rejected already (a URL it cannot
\* use): the await queues the resumption of the task at once.
KickoffFetchRejected ==
    /\ Job("kickoff")
    /\ microtasks' = Append(Tail(microtasks), "fetch_rejected")
    /\ setup' = NoSetup("rejected")
    /\ kick' = "fetch"
    /\ NoEmit
    /\ UNCHANGED <<env, sc, body, aborted, turn, registry, delivered, nOn, nAbort,
                   abortPhase, uncaught, subs, pLines, pText, pCut, pFed, turnEnd>>

\* Lines 42-57: streamConversation resumes after its await, registers the cleanup
\* listener and returns the handle, which queues the caller's continuation.
Resume ==
    /\ Job("resume")
    /\ microtasks' = Append(Tail(microtasks), "caller")
    /\ registry' = [registry EXCEPT !["end"] = Append(@, CleanupListener)]
    /\ sc' = "returned"
    /\ NoEmit
    /\ UNCHANGED <<env, kick, setup, body, aborted, turn, delivered, nOn, nAbort,
                   abortPhase, uncaught, subs, pLines, pText, pCut, pFed, turnEnd>>

\* The caller's continuation receives the handle and starts running.
CallerResumes ==
    /\ Job("caller")
    /\ microtasks' = Tail(microtasks)
    /\ sc' = "held"
    /\ turn' = "caller"
    /\ NoEmit
    /\ UNCHANGED <<env, kick, setup, body, aborted, registry, delivered, nOn, nAbort,
                   abortPhase, uncaught, subs, pLines, pText, pCut, pFed, turnEnd>>

\* Lines 73, 95-98: the awaited fetch promise was rejected (at once, or by the abort
\* signal): the task resumes in its catch.
FetchRejected ==
    /\ Job("fetch_rejected")
    /\ microtasks' = Tail(microtasks)
    /\ kick' = "done"
    /\ DoEmit(StartCatch(IF setup.how = "abort" THEN "AbortError" ELSE "TypeError", 0))
    /\ UNCHANGED <<env, sc, setup, body, aborted, turn, registry, delivered, nOn, nAbort,
                   abortPhase, uncaught, subs, pLines, pText, pCut, pFed, turnEnd>>

\* Lines 114, 127-128: the awaited reader.read() was rejected by the abort signal.
ReadRejected ==
    /\ Job("read_rejected")
    /\ microtasks' = Tail(microtasks)
    /\ kick' = "done"
    /\ DoEmit(ReadCatch("AbortError"))
    /\ UNCHANGED <<env, sc, setup, body, aborted, turn, registry, delivered, nOn, nAbort,
                   abortPhase, uncaught, subs, pLines, pText, pCut, pFed, turnEnd>>

\* Lines 73, 95-98: the network fails before a response arrives.
FetchFails ==
    /\ Macrotask /\ kick = "fetch" /\ setup.how = "pending"
    /\ setup' = NoSetup("neterr")
    /\ kick' = "done"
    /\ DoEmit(StartCatch("TypeError", 0))
    /\ UNCHANGED <<env, sc, body, aborted, microtasks, turn, registry, delivered, nOn,
                   nAbort, abortPhase, uncaught, subs, pLines, pText, pCut, pFed, turnEnd>>

\* Lines 83-86, 95-98: a response that is not ok or has no body.
FetchRefused ==
    /\ Macrotask /\ kick = "fetch" /\ setup.how = "pending"
    /\ \E r \in Responses :
          /\ ~r.ok \/ ~r.hasBody
          /\ setup' = [how |-> IF r.ok THEN "nobody" ELSE "notok", status |-> r.status]
          /\ DoEmit(StartCatch("POST request failed", r.status))
    /\ kick' = "done"
    /\ UNCHANGED <<env, sc, body, aborted, microtasks, turn, registry, delivered, nOn,
                   nAbort, abortPhase, uncaught, subs, pLines, pText, pCut, pFed, turnEnd>>

\* Lines 83-93, 107-114 / 138-148: a good response; the adapter of the environment
\* starts: the pull variant requests its first chunk, the push variant registers
\* its two callbacks and the task is over.
FetchResponds ==
    /\ Macrotask /\ kick = "fetch" /\ setup.how = "pending"
    /\ \E r \in Responses :
          /\ r.ok /\ r.hasBody
          /\ setup' = [how |-> "ok", status |-> r.status]
    /\ IF env = "browser"
       THEN kick' = "read" /\ body' = "reading"
       ELSE kick' = "done" /\ body' = "flowing"
    /\ NoEmit
    /\ UNCHANGED <<env, sc, aborted, microtasks, turn, registry, delivered, nOn,
                   nAbort, abortPhase, uncaught, subs, pLines, pText, pCut, pFed, turnEnd>>

\* Lines 113-126, 127-132: reader.read() yields a chunk; it is decoded and handled,
\* and the loop requests the next one, unless handling threw, which the catch of
\* readBrowserStream turns into error + end.
ReadChunk ==
    /\ Macrotask /\ kick = "read" /\ Len(delivered) < MaxChunks
    /\ \E c \in ChunkIds :
          LET r == handleServerSentEvent(ChunkText(c)) IN
          /\ delivered' = Append(delivered, c)
          /\ IF r.thrown = "none"
             THEN DoEmit(r.events) /\ UNCHANGED <<kick, body>>
             ELSE DoEmit(r.events \o ReadCatch(r.thrown)) /\ kick' = "done" /\ body' = "left"
    /\ UNCHANGED <<env, sc, setup, aborted, microtasks, turn, registry, nOn, nAbort,
                   abortPhase, uncaught, subs, pLines, pText, pCut, pFed, turnEnd>>

\* Lines 116-119: reader.read() reports the end of the body.
ReadDone ==
    /\ Macrotask /\ kick = "read"
    /\ kick' = "done"
    /\ body' = "closed"
    /\ DoEmit(<<EndEvent>>)
    /\ UNCHANGED <<env, sc, setup, aborted, microtasks, turn, registry, delivered, nOn,
                   nAbort, abortPhase, uncaught, subs, pLines, pText, pCut, pFed, turnEnd>>

\* Lines 114, 127-132: reader.read() is rejected by a transport fault.
ReadFails ==
    /\ Macrotask /\ kick = "read"
    /\ kick' = "done"
    /\ body' = "errored"
    /\ DoEmit(ReadCatch("TypeError"))
    /\ UNCHANGED <<env, sc, setup, aborted, microtasks, turn, registry, delivered, nOn,
                   nAbort, abortPhase, uncaught, subs, pLines, pText, pCut, pFed, turnEnd>>

\* Lines 142-144: the body stream emits 'data'.  An exception of the handler leaves
\* the callback: no try block is around it when it runs.  Nothing detaches the
\* callback, so a body that still drains after abort() is handled too.
NodeData ==
    /\ Macrotask /\ body = "flowing" /\ Len(delivered) < MaxChunks
    /\ \E c \in ChunkIds :
          LET r == handleServerSentEvent(ChunkText(c)) IN
          /\ delivered' = Append(delivered, c)
          /\ DoEmit(r.events)
          /\ uncaught' = (uncaught \/ r.thrown # "none")
    /\ UNCHANGED <<env, sc, kick, setup, body, aborted, microtasks, turn, registry, nOn,
                   nAbort, abortPhase, subs, pLines, pText, pCut, pFed, turnEnd>>

\* NodeEnd of a readNodeStream that registers no 'end' callback.
NodeEndUnheard ==
    /\ Macrotask /\ body = "flowing"
    /\ body' = "ended"
    /\ NoEmit
    /\ UNCHANGED <<env, sc, kick, setup, aborted, microtasks, turn, registry, delivered,
                   nOn, nAbort, abortPhase, uncaught, subs, pLines, pText, pCut, pFed, turnEnd>>

\* Lines 146-148: the body stream emits 'end'.
NodeEnd ==
    /\ Macrotask /\ body = "flowing"
    /\ body' = "ended"
    /\ DoEmit(<<EndEvent>>)
    /\ UNCHANGED <<env, sc, kick, setup, aborted, microtasks, turn, registry, delivered,
                   nOn, nAbort, abortPhase, uncaught, subs, pLines, pText, pCut, pFed, turnEnd>>

\* Lines 138-148: the body stream emits 'error' after a transport fault; readNodeStream
\* registered 'data' and 'end' only, so the event has no handler.
NodeError ==
    /\ Macrotask /\ body = "flowing" /\ ~aborted
    /\ body' = "errored"
    /\ uncaught' = TRUE
    /\ NoEmit
    /\ UNCHANGED <<env, sc, kick, setup, aborted, microtasks, turn, registry, delivered,
                   nOn, nAbort, abortPhase, subs, pLines, pText, pCut, pFed, turnEnd>>

\* Lines 44-46: a timer of the cleanup listener fires.
TimerFires ==
    /\ Macrotask /\ timers > 0
    /\ timers' = timers - 1
    /\ registry' = EmptyRegistry
    /\ UNCHANGED <<env, sc, kick, setup, body, aborted, microtasks, turn, emitted, log,
                   delivered, nOn, nAbort, abortPhase, uncaught, subs, pLines, pText,
                   pCut, pFed, turnEnd>>

\* Caller code runs in the turn that received the handle, or in a later turn of its own.
CallerMayRun == sc = "held" /\ (turn = "caller" \/ Macrotask)

\* The kinds a caller registers one listener function for in one go: all four, as
\* the README does.
OnChoices == { Kinds }

\* Line 51: handle.on(kind, listener), for each kind of ks, with a new listener function.
On(ks) ==
    /\ CallerMayRun /\ nOn + nAbort < MaxCalls
    /\ nOn' = nOn + 1
    /\ turn' = "caller"
    /\ registry' = [k \in Kinds |->
                      IF k \in ks THEN Append(registry[k], nOn + 1) ELSE registry[k]]
    /\ NoEmit
    /\ subs' = Append(subs, [kinds |-> ks, early |-> emitted = <<>>,
                              afterEnd |-> turnEnd])
    /\ UNCHANGED <<env, sc, kick, setup, body, aborted, microtasks, delivered, nAbort,
                   abortPhase, uncaught, pLines, pText, pCut, pFed, turnEnd>>

\* Where the request stands, as abort() finds it.
Phase ==
    CASE kick = "fetch" -> "fetch"
      [] kick = "read" -> "read"
      [] body = "flowing" -> "push"
      [] OTHER -> "over"

\* Abort that also removes the listeners at once.
AbortClearing ==
    /\ CallerMayRun /\ nOn + nAbort < MaxCalls
    /\ nAbort' = nAbort + 1
    /\ turn' = "caller"
    /\ aborted' = TRUE
    /\ abortPhase' = IF nAbort = 0 THEN Phase ELSE abortPhase
    /\ IF aborted THEN UNCHANGED <<microtasks, setup, body>>
       ELSE CASE kick = "fetch" ->
                   /\ microtasks' = Append(microtasks, "fetch_rejected")
                   /\ setup' = NoSetup("abort")
                   /\ UNCHANGED body
              [] kick = "read" ->
                   /\ microtasks' = Append(microtasks, "read_rejected")
                   /\ body' = "cancelled"
                   /\ UNCHANGED setup
              [] OTHER -> UNCHANGED <<microtasks, setup, body>>
    /\ DoEmit(<<EndEvent>>)
    /\ registry' = EmptyRegistry
    /\ turnEnd' = TRUE
    /\ UNCHANGED <<env, sc, kick, delivered, nOn, uncaught, subs, pLines, pText, pCut, pFed>>

\* Abort without its emit: the signal is fired and 'end' is left to the transport.
AbortSignalOnly ==
    /\ CallerMayRun /\ nOn + nAbort < MaxCalls
    /\ nAbort' = nAbort + 1
    /\ turn' = "caller"
    /\ aborted' = TRUE
    /\ abortPhase' = IF nAbort = 0 THEN Phase ELSE abortPhase
    /\ IF aborted THEN UNCHANGED <<microtasks, setup, body>>
       ELSE CASE kick = "fetch" ->
                   /\ microtasks' = Append(microtasks, "fetch_rejected")
                   /\ setup' = NoSetup("abort")
                   /\ UNCHANGED body
              [] kick = "read" ->
                   /\ microtasks' = Append(microtasks, "read_rejected")
                   /\ body' = "cancelled"
                   /\ UNCHANGED setup
              [] OTHER -> UNCHANGED <<microtasks, setup, body>>
    /\ NoEmit
    /\ turnEnd' = TRUE
    /\ UNCHANGED <<env, sc, kick, registry, delivered, nOn, uncaught, subs, pLines, pText,
                   pCut, pFed>>

\* Lines 52-55: handle.abort().  controller.abort() fires the signal once: a pending
\* fetch or a pending reader.read() (both were given the signal, line 80) is rejected
\* with an AbortError, which queues the resumption of the suspended task.  Then
\* 'end' is emitted.
Abort ==
    /\ CallerMayRun /\ nOn + nAbort < MaxCalls
    /\ nAbort' = nAbort + 1
    /\ turn' = "caller"
    /\ aborted' = TRUE
    /\ abortPhase' = IF nAbort = 0 THEN Phase ELSE abortPhase
    /\ IF aborted THEN UNCHANGED <<microtasks, setup, body>>
       ELSE CASE kick = "fetch" ->
                   /\ microtasks' = Append(microtasks, "fetch_rejected")
                   /\ setup' = NoSetup("abort")
                   /\ UNCHANGED body
              [] kick = "read" ->
                   /\ microtasks' = Append(microtasks, "read_rejected")
                   /\ body' = "cancelled"
                   /\ UNCHANGED setup
              [] OTHER -> UNCHANGED <<microtasks, setup, body>>
    /\ DoEmit(<<EndEvent>>)
    /\ turnEnd' = TRUE
    /\ UNCHANGED <<env, sc, kick, registry, delivered, nOn, uncaught, subs, pLines, pText,
                   pCut, pFed>>

\* The caller's synchronous code returns to the event loop.
CallerYield ==
    /\ turn = "caller"
    /\ turn' = "none"
    /\ NoEmit
    /\ turnEnd' = FALSE
    /\ UNCHANGED <<env, sc, kick, setup, body, aborted, microtasks, registry, delivered,
                   nOn, nAbort, abortPhase, uncaught, subs, pLines, pText, pCut, pFed>>

Next ==
    \/ StreamConversation
    \/ KickoffThrows
    \/ KickoffFetch
    \/ KickoffFetchRejected
    \/ Resume
    \/ CallerResumes
    \/ FetchRejected
    \/ ReadRejected
    \/ FetchFails
    \/ FetchRefused
    \/ FetchResponds
    \/ ReadChunk
    \/ ReadDone
    \/ ReadFails
    \/ NodeData
    \/ NodeEnd
    \/ NodeError
    \/ TimerFires
    \/ \E ks \in OnChoices : On(ks)
    \/ Abort
    \/ CallerYield

Spec == Init /\ [][Next]_vars

----------------------------------------------------------------------------
(* A harness for handleServerSentEvent alone: one call on a text built from up to *)
(* MaxLines lines, with one listener registered for every kind.                  *)

LinePool == << LineS1, LineS2, LineD, LineE, LinePing, LineNoStatus, LineCut, LineNull,
               LineEvent, LineBlank, LineAccent, LineNote >>

LineIds == 1..Len(LinePool)

RECURSIVE JoinLines(_)
JoinLines(ids) ==
    IF ids = <<>> THEN <<>>
    ELSE IF Len(ids) = 1 THEN LinePool[ids[1]]
    ELSE LinePool[ids[1]] \o <<NL>> \o JoinLines(Tail(ids))

InitParse ==
    /\ env = "node"
    /\ sc = "held"
    /\ kick = "parse"
    /\ setup = [how |-> "ok", status |-> 200]
    /\ body = "flowing"
    /\ aborted = FALSE
    /\ microtasks = <<>>
    /\ turn = "none"
    /\ timers = 0
    /\ registry = [k \in Kinds |-> <<1>>]
    /\ emitted = <<>>
    /\ log = <<>>
    /\ delivered = <<>>
    /\ nOn = 1
    /\ nAbort = 0
    /\ abortPhase = "none"
    /\ subs = << [kinds |-> Kinds, early |-> TRUE, afterEnd |-> FALSE] >>
    /\ uncaught = FALSE
    /\ pLines \in UNION { [1..n -> LineIds] : n \in 0..MaxLines }
    /\ pText \in { JoinLines(pLines), JoinLines(pLines) \o <<NL>> }
    /\ pCut = 0
    /\ pFed = <<>>
    /\ turnEnd = FALSE

\* Lines 158-181: one call of handleServerSentEvent(pText, emitter).
ParseCall ==
    /\ kick = "parse"
    /\ kick' = "parsed"
    /\ LET r == handleServerSentEvent(pText) IN
          /\ DoEmit(r.events)
          /\ uncaught' = (r.thrown # "none")
    /\ UNCHANGED <<env, sc, setup, body, aborted, microtasks, turn, registry, delivered,
                   nOn, nAbort, abortPhase, subs, pLines, pText, pCut, pFed, turnEnd>>

NextParse == ParseCall

SpecParse == InitParse /\ [][NextParse]_vars

----------------------------------------------------------------------------
(* A harness for the read loop of readBrowserStream alone: a body of up to        *)
(* MaxLines lines, each ended by a line feed, arrives whole or cut in two chunks  *)
(* at any byte, and then closes.  One listener is registered for every kind.      *)

\* The lines of the bodies: two STREAMING frames (one with an accented letter), a
\* DONE frame and a comment line with an accented letter.
PullLineIds == {1, 3, 11, 12}

RECURSIVE Body(_)
Body(ids) ==
    IF ids = <<>> THEN <<>>
    ELSE Encode(LinePool[Head(ids)]) \o <<NL>> \o Body(Tail(ids))

\* The chunks reader.read() yields, in order.
PullChunks ==
    IF pText = <<>> THEN <<>>
    ELSE IF pCut = Len(pText) THEN <<pText>>
    ELSE << SubSeq(pText, 1, pCut), SubSeq(pText, pCut + 1, Len(pText)) >>

InitPull ==
    /\ env = "browser"
    /\ sc = "held"
    /\ kick = "read"
    /\ setup = [how |-> "ok", status |-> 200]
    /\ body = "reading"
    /\ aborted = FALSE
    /\ microtasks = <<>>
    /\ turn = "none"
    /\ timers = 0
    /\ registry = [k \in Kinds |-> <<1>>]
    /\ emitted = <<>>
    /\ log = <<>>
    /\ delivered = <<>>
    /\ nOn = 1
    /\ nAbort = 0
    /\ abortPhase = "none"
    /\ subs = << [kinds |-> Kinds, early |-> TRUE, afterEnd |-> FALSE] >>
    /\ uncaught = FALSE
    /\ pLines \in UNION { [1..n -> PullLineIds] : n \in 0..MaxLines }
    /\ pText = Body(pLines)
    /\ pCut \in IF pText = <<>> THEN {0} ELSE 1..Len(pText)
    /\ pFed = <<>>
    /\ turnEnd = FALSE

\* PullChunk of a loop that asks for the next chunk without handling this one.
PullChunkUnhandled ==
    /\ kick = "read" /\ Len(pFed) < Len(PullChunks)
    /\ pFed' = Append(pFed, Decode(PullChunks[Len(pFed) + 1]))
    /\ NoEmit
    /\ UNCHANGED <<env, sc, kick, setup, body, aborted, microtasks, turn, registry,
                   delivered, nOn, nAbort, abortPhase, uncaught, subs, pLines, pText,
                   pCut, turnEnd>>

\* Lines 113-126, 127-132: reader.read() yields the next chunk; decoder.decode(value)
\* decodes it on its own, handleServerSentEvent handles the text, and the loop asks
\* for the next chunk, unless handling threw.
PullChunk ==
    /\ kick = "read" /\ Len(pFed) < Len(PullChunks)
    /\ LET text == Decode(PullChunks[Len(pFed) + 1])
           r == handleServerSentEvent(text)
       IN
       /\ pFed' = Append(pFed, text)
       /\ IF r.thrown = "none"
          THEN DoEmit(r.events) /\ UNCHANGED <<kick, body>>
          ELSE DoEmit(r.events \o ReadCatch(r.thrown)) /\ kick' = "done" /\ body' = "left"
    /\ UNCHANGED <<env, sc, setup, aborted, microtasks, turn, registry, delivered, nOn,
                   nAbort, abortPhase, uncaught, subs, pLines, pText, pCut, turnEnd>>

\* Lines 116-119: reader.read() reports the end of the body.
PullDone ==
    /\ kick = "read" /\ Len(pFed) = Len(PullChunks)
    /\ kick' = "done"
    /\ body' = "closed"
    /\ DoEmit(<<EndEvent>>)
    /\ UNCHANGED <<env, sc, setup, aborted, microtasks, turn, registry, delivered, nOn,
                   nAbort, abortPhase, uncaught, subs, pLines, pText, pCut, pFed, turnEnd>>

NextPull == PullChunk \/ PullDone

SpecPull == InitPull /\ [][NextPull]_vars

----------------------------------------------------------------------------
(* What the wire format says of each line of LinePool, written down line by line *)

Frame(k, st, tx) == [class |-> "frame", kind |-> k, data |-> Payload(st, tx)]
NoFrame(c) == [class |-> c, kind |-> "none", data |-> Undefined]

LineTable == << Frame("message", "STREAMING", "1"),
                Frame("message", "STREAMING", "2"),
                Frame("complete", "DONE", "undefined"),
                Frame("error", "ERROR", "2"),
                NoFrame("silent"),
                NoFrame("silent"),
                NoFrame("fault"),
                NoFrame("fault"),
                NoFrame("foreign"),
                NoFrame("blank"),
                Frame("message", "STREAMING", "e'"),
                NoFrame("foreign") >>

\* The well-formed data: lines among ids, in their order.
FramesOf(ids) == SelectSeq(ids, LAMBDA i : LineTable[i].class = "frame")

NoFaultIn(ids) == \A j \in 1..Len(ids) : LineTable[ids[j]].class # "fault"

\* What listener l was handed, in order.
Received(l) == SelectSeq(log, LAMBDA d : d.to = l)

KindsOf(evs) == [i \in 1..Len(evs) |-> evs[i].kind]

RECURSIVE FrameEvents(_)
FrameEvents(ids) ==
    IF ids = <<>> THEN <<>>
    ELSE <<Ev(LineTable[Head(ids)].kind, LineTable[Head(ids)].data)>> \o FrameEvents(Tail(ids))

OfKind(evs, k) == SelectSeq(evs, LAMBDA e : e.kind = k)

EndCount(l) == Len(OfKind(Received(l), "end"))

Terminated == \E i \in 1..Len(emitted) : emitted[i].kind = "end"

CallerListeners == 1..nOn

----------------------------------------------------------------------------
(* Claims *)

\* C1: in every state, each listener of the caller has received at most one End,
\* and an End it has received is the last event it has received.
C1_OneEndAndLast ==
    \A l \in CallerListeners :
        LET r == Received(l) IN
        /\ EndCount(l) <= 1
        /\ \A i \in 1..Len(r) : r[i].kind = "end" => i = Len(r)

\* C2: abort() is idempotent: a call of abort() hands nothing to a listener that
\* has already received End (the stream was Terminated before the call).
C2_AbortIdempotent ==
    [][ nAbort' = nAbort + 1
          => \A l \in CallerListeners :
                EndCount(l) >= 1 => Received(l)' = Received(l) ]_vars

\* C3: when the one abort() call came while the fetch had not produced a response,
\* no listener of the caller has received more than one End, or any Message or
\* Complete.
C3_AbortBeforeResponse ==
    (abortPhase = "fetch" /\ nAbort = 1) =>
        \A l \in CallerListeners :
            /\ EndCount(l) <= 1
            /\ OfKind(Received(l), "message") = <<>>
            /\ OfKind(Received(l), "complete") = <<>>

\* C4: no listener is ever handed an Error event that describes the AbortError of
\* the operation abort() cancelled.
C4_CancelNeverAnError ==
    \A i \in 1..Len(log) : ~(log[i].kind = "error" /\ log[i].data.cause = "AbortError")

\* C5: after handleServerSentEvent has handled a chunk whose data: lines all parse,
\* the events emitted are those of its N well-formed data: lines, one per line, in
\* the order of the lines, and the listener has been handed the same sequence.
C5_OneEventPerLineInOrder ==
    (kick = "parsed" /\ NoFaultIn(pLines)) =>
        /\ Len(emitted) = Len(FramesOf(pLines))
        /\ emitted = FrameEvents(FramesOf(pLines))
        /\ [i \in 1..Len(Received(1)) |-> Ev(Received(1)[i].kind, Received(1)[i].data)] = emitted

\* C5 witness: a chunk of three well-formed lines (STREAMING 1, DONE, STREAMING 2)
\* has been handled and three events were emitted.
C5_Witness ==
    /\ kick = "parsed"
    /\ pLines = <<1, 3, 2>>
    /\ KindsOf(emitted) = <<"message", "complete", "message">>

\* C6: every event handleServerSentEvent emits is 'message' for a STREAMING payload,
\* 'complete' for a DONE payload and 'error' for an ERROR payload and carries that
\* payload; the lines of each status account for exactly the events of its kind,
\* and a line with another status or none accounts for no event.
C6_ClassifiedByStatus ==
    (kick = "parsed" /\ NoFaultIn(pLines)) =>
        /\ \A i \in 1..Len(emitted) :
              \/ emitted[i].kind = "message" /\ emitted[i].data.status = "STREAMING"
              \/ emitted[i].kind = "complete" /\ emitted[i].data.status = "DONE"
              \/ emitted[i].kind = "error" /\ emitted[i].data.status = "ERROR"
        /\ \A k \in {"message", "complete", "error"} :
              OfKind(emitted, k) =
                  FrameEvents(SelectSeq(pLines, LAMBDA j : LineTable[j].kind = k))

\* C6 witness: a chunk with a PING line, an ERROR line and a line without status
\* has been handled, and the one event emitted is the 'error' with its payload.
C6_Witness ==
    /\ kick = "parsed"
    /\ pLines = <<5, 4, 6>>
    /\ emitted = << Ev("error", Payload("ERROR", "2")) >>

SetupFaults == {"threw", "rejected", "neterr", "notok", "nobody"}

\* C7: once the request has failed at setup (building it threw, fetch was rejected
\* for a reason other than cancellation, the response was not ok or had no body),
\* the stream has emitted exactly one Error, which carries the description of the
\* failure (with the status code when the response was refused) and is immediately
\* followed by End; it has emitted no Message and no Complete, and nothing has
\* escaped the kicked-off task.
C7_SetupFailure ==
    (setup.how \in SetupFaults /\ kick = "done") =>
        LET errs == { i \in 1..Len(emitted) : emitted[i].kind = "error" } IN
        /\ Cardinality(errs) = 1
        /\ \A i \in errs :
              /\ i < Len(emitted) /\ emitted[i + 1] = EndEvent
              /\ emitted[i].data.desc = "Request failed"
              /\ setup.how \in {"notok", "nobody"} =>
                    /\ emitted[i].data.cause = "POST request failed"
                    /\ emitted[i].data.code = setup.status
                    /\ emitted[i].data.code >= 200
        /\ OfKind(emitted, "message") = <<>>
        /\ OfKind(emitted, "complete") = <<>>
        /\ ~uncaught

\* C7 witness: the response had status 500 and a listener registered with the
\* handle was handed the Error and then End.
C7_Witness ==
    /\ setup = [how |-> "notok", status |-> 500]
    /\ kick = "done"
    /\ nOn >= 1
    /\ KindsOf(Received(1)) = <<"error", "end">>
    /\ Received(1)[1].data.code = 500

\* The kinds of the events of the chunks that hold whole frames only.
ChunkKinds(c) == IF c = 1 THEN <<"message">> ELSE <<"complete">>

RECURSIVE KindsOfChunks(_)
KindsOfChunks(cs) ==
    IF cs = <<>> THEN <<>> ELSE ChunkKinds(Head(cs)) \o KindsOfChunks(Tail(cs))

\* C8: when the transport is exhausted after chunks of whole frames, without abort
\* or fault, a listener registered before anything was emitted has received the
\* events of the chunks in transport order and then End, in both variants (for a
\* STREAMING chunk and a DONE chunk: Message, Complete, End).
C8_TransportOrderThenEnd ==
    (/\ body \in {"closed", "ended"}
     /\ nAbort = 0
     /\ ~uncaught
     /\ \A j \in 1..Len(delivered) : delivered[j] \in {1, 2})
    => \A l \in CallerListeners :
          subs[l].early =>
              KindsOf(Received(l)) = KindsOfChunks(delivered) \o <<"end">>

\* C8 witness: the pull variant has read a STREAMING chunk, a DONE chunk and the
\* end of the body, and the listener was handed Message, Complete, End.
C8_Witness ==
    /\ env = "browser"
    /\ body = "closed"
    /\ delivered = <<1, 2>>
    /\ nOn >= 1
    /\ KindsOf(Received(1)) = <<"message", "complete", "end">>

\* The stream has emitted an Error with the description of a read failure and,
\* right after it, End.
ReadFailureReported ==
    \E i \in 1..(Len(emitted) - 1) :
        /\ emitted[i].kind = "error"
        /\ emitted[i].data.desc = "Failed to read stream"
        /\ emitted[i + 1] = EndEvent

\* C9: after a transport fault in mid-stream that no cancellation caused, the stream
\* has emitted an Error with a description followed by End, in the pull and in the
\* push variant.
C9_FaultReported == body = "errored" => ReadFailureReported

\* C10: after a chunk with a data: line that is not parseable JSON was handed over,
\* no exception has left the callback or loop that handled it, and the stream has
\* emitted an Error followed by End, in both variants.
C10_MalformedReported ==
    (\E j \in 1..Len(delivered) : delivered[j] = 3) => (~uncaught /\ ReadFailureReported)

\* Nothing of the stream is left to run: the kicked-off task is over, the body no
\* longer flows, no job is queued and no code runs.
Quiet == kick = "done" /\ body # "flowing" /\ microtasks = <<>> /\ turn = "none"

\* C11: once the transport has delivered exhaustion or a fault, or the caller has
\* aborted, and nothing of the stream is left to run, every listener that was
\* registered on the handle before anything was emitted has received End.
C11_EndReachesListeners ==
    Quiet => \A l \in CallerListeners : subs[l].early => EndCount(l) >= 1

\* The listeners registered for 'end'.
EndListeners == { registry["end"][i] : i \in 1..Len(registry["end"]) }

\* C12: a call of abort() made before any End was emitted hands End to every
\* listener registered for 'end' at that moment, within the call: in the state the
\* call leaves, each of them has received one more event, an End.
C12_AbortEndsSynchronously ==
    [][ (nAbort' = nAbort + 1 /\ ~Terminated) =>
            \A l \in EndListeners :
                Received(l)' =
                    Append(Received(l), [kind |-> "end", data |-> Undefined, to |-> l])
      ]_vars

\* C12 witness: abort() was called while the fetch was pending; the caller's turn
\* still runs, the rejection of the fetch is still queued, and a listener of the
\* caller has its End already.
C12_Witness ==
    /\ abortPhase = "fetch" /\ kick = "fetch" /\ turn = "caller" /\ nAbort = 1
    /\ \E l \in CallerListeners : KindsOf(Received(l)) = <<"end">>

\* The ways a request ends that take a round trip to the network.
NetworkOutcomes == {"ok", "notok", "nobody", "neterr"}

\* C13: the caller holds the handle before any outcome of the network call exists
\* (no response and no network failure has been consumed while the handle was not
\* yet held), and whenever the caller's code can run with the handle, abort() can
\* be called, whatever the state of the request.
C13_HandleWithoutWaiting ==
    /\ sc # "held" => setup.how \notin NetworkOutcomes
    /\ (CallerMayRun /\ nOn + nAbort < MaxCalls) => ENABLED Abort

\* C13 witness: the caller holds the handle and has called abort() while the fetch
\* was pending; nothing was thrown.
C13_Witness ==
    /\ sc = "held" /\ kick = "fetch" /\ setup.how = "abort" /\ nAbort = 1 /\ ~uncaught

RECURSIVE Repeat(_, _)
Repeat(s, n) == IF n = 0 THEN <<>> ELSE s \o Repeat(s, n - 1)

\* C14: the listeners registered for a kind are kept in the order of their
\* registration (a later handle.on call gives a higher listener number), and in
\* every step the deliveries logged for a kind go to all listeners registered for
\* it, in that order, once for each event of the kind the step emitted.
C14_AllInRegistrationOrder ==
    [][ \A k \in Kinds :
          LET newLog == SelectSeq(SubSeq(log', Len(log) + 1, Len(log')),
                                  LAMBDA d : d.kind = k)
              newEvs == SelectSeq(SubSeq(emitted', Len(emitted) + 1, Len(emitted')),
                                  LAMBDA e : e.kind = k)
          IN
          /\ [i \in 1..Len(newLog) |-> newLog[i].to] = Repeat(registry[k], Len(newEvs))
          /\ \A i, j \in 1..Len(registry'[k]) : i < j => registry'[k][i] < registry'[k][j]
      ]_vars

\* C14 witness: two listeners of the caller are registered for Message, and one
\* Message was handed to the first and then to the second.
C14_Witness ==
    /\ nOn >= 2
    /\ \E i \in 1..(Len(log) - 1) :
          /\ log[i].kind = "message" /\ log[i].to = 1
          /\ log[i + 1].kind = "message" /\ log[i + 1].to = 2
          /\ log[i + 1].data = log[i].data

IsPrefix(a, b) == Len(a) <= Len(b) /\ SubSeq(b, 1, Len(a)) = a

\* C15: in the pull variant, the texts handed to handleServerSentEvent so far, put
\* end to end, are a beginning of the decoded text of the whole body, and the whole
\* of it once every chunk was handed over, wherever the chunk boundary falls, also
\* inside a multi-byte character.
C15_DecodingAcrossChunks ==
    /\ IsPrefix(Concat(pFed), Decode(pText))
    /\ Len(pFed) = Len(PullChunks) => Concat(pFed) = Decode(pText)

\* An Error that a catch block built (a description string), not a frame's payload.
IsFault(e) == e.kind = "error" /\ e.data.desc # "none"

\* C16: when abort() was called once, while a read of the pull variant was in
\* flight, the stream has emitted exactly one End, the one of abort(), nothing after
\* it and no Error of a failure; no listener of the caller was handed such an Error
\* or a second End, and once the rejected read was handled the reading is over.
C16_AbortDuringRead ==
    (abortPhase = "read" /\ nAbort = 1) =>
        /\ Len(OfKind(emitted, "end")) = 1
        /\ emitted[Len(emitted)] = EndEvent
        /\ \A i \in 1..Len(emitted) : ~IsFault(emitted[i])
        /\ \A l \in CallerListeners :
              /\ EndCount(l) <= 1
              /\ \A i \in 1..Len(Received(l)) : ~IsFault(Received(l)[i])
        /\ microtasks = <<>> => (kick = "done" /\ body = "cancelled")

\* C16 witness: a chunk was read, abort() was called during the next read, the
\* rejection of that read was handled, and a listener was handed Message, End.
C16_Witness ==
    /\ abortPhase = "read" /\ nAbort = 1 /\ kick = "done"
    /\ \E l \in CallerListeners : KindsOf(Received(l)) = <<"message", "end">>

\* C17: once abort() has emitted End while the body was being read (a read in
\* flight, or the push body flowing), no later step other than another abort()
\* call consumes a chunk or hands an event of any kind to a listener of the caller.
C17_TerminatedAbsorbing ==
    [][ (nAbort >= 1 /\ abortPhase \in {"read", "push"} /\ nAbort' = nAbort) =>
            /\ delivered' = delivered
            /\ \A l \in CallerListeners : Received(l)' = Received(l)
      ]_vars

\* The number of bytes of the first j lines of the body.
CutAfter(j) == Len(Body(SubSeq(pLines, 1, j)))

EventsOf(ds) == [i \in 1..Len(ds) |-> Ev(ds[i].kind, ds[i].data)]

\* C18: in the pull variant, with the first chunk made of the first j lines of the
\* body: while the read of the second chunk is in flight, the listener has been
\* handed every event of the frames of those j lines, in order, and nothing else;
\* while the read after the second chunk is in flight, every event of all frames,
\* in line order; and when the body has closed, those and then End.
C18_ChunkBeforeNextRead ==
    \A j \in 1..Len(pLines) :
        pCut = CutAfter(j) =>
            /\ (kick = "read" /\ Len(pFed) = 1) =>
                   EventsOf(Received(1)) = FrameEvents(FramesOf(SubSeq(pLines, 1, j)))
            /\ (kick = "read" /\ Len(pFed) = 2) =>
                   EventsOf(Received(1)) = FrameEvents(FramesOf(pLines))
            /\ kick = "done" =>
                   EventsOf(Received(1)) = FrameEvents(FramesOf(pLines)) \o <<EndEvent>>

\* C18 witness: the first chunk held two frames, both were handed to the listener,
\* and the read of the second chunk, which holds a third frame, is in flight.
C18_Witness ==
    /\ Len(pLines) = 3 /\ FramesOf(pLines) = pLines
    /\ pCut = CutAfter(2)
    /\ kick = "read" /\ Len(pFed) = 1
    /\ Len(Received(1)) = 2

\* In a step: every listener registered for 'end' before the step is handed one End
\* for each End the step emits.
EndToRegistered ==
    LET n == Len(OfKind(emitted', "end")) - Len(OfKind(emitted, "end")) IN
    \A l \in EndListeners : EndCount(l)' = EndCount(l) + n

\* In a step: listeners leave the registry only after an End was emitted in an
\* earlier step, in a step that emits nothing and runs when no code runs and no job
\* is queued (the zero-delay timer).
ClearedLater ==
    (\E k \in Kinds : Len(registry'[k]) < Len(registry[k])) =>
        /\ Terminated
        /\ emitted' = emitted /\ log' = log
        /\ turn = "none" /\ microtasks = <<>>
        /\ timers' = timers - 1

\* C19, as stated: every 'end' listener registered when End is emitted receives it,
\* the registry is cleared only in a later turn, and when a turn of the caller
\* ends, every listener registered in a turn in which End had been emitted (before
\* or after the registration) has received End.
C19_AnyListenerOfTheTurn ==
    [][ /\ EndToRegistered
        /\ ClearedLater
        /\ (turn = "caller" /\ turn' = "none") =>
               \A l \in CallerListeners : subs[l].afterEnd => EndCount(l) >= 1
      ]_vars

\* C19, amended: every 'end' listener registered when End is emitted, also one
\* registered earlier in the same turn, receives it; the registry is cleared only
\* in a later turn; and registering a listener hands it nothing, so a listener
\* registered after the emission, even in the same turn, does not receive that End.
C19_DeferredCleanup ==
    [][ /\ EndToRegistered
        /\ ClearedLater
        /\ nOn' = nOn + 1 => log' = log
      ]_vars

\* C19 witness: in a running turn of the caller, after abort() emitted End and
\* before the timer has cleared the registry, one listener has received the End
\* and another, registered after the emission in this turn, has not.
C19_Witness ==
    /\ turn = "caller" /\ turnEnd /\ timers > 0
    /\ \E l1, l2 \in CallerListeners :
          /\ ~subs[l1].afterEnd /\ EndCount(l1) = 1
          /\ subs[l2].afterEnd /\ EndCount(l2) = 0
          /\ {l1, l2} \subseteq EndListeners

\* Lines 107-133: what readBrowserStream emits for a body that yields the chunks cs
\* and then ends as ending says ("exhausted" or "fault"), when nobody aborts.
RECURSIVE PullRun(_, _)
PullRun(cs, ending) ==
    IF cs = <<>>
    THEN IF ending = "exhausted" THEN <<EndEvent>> ELSE ReadCatch("TypeError")
    ELSE LET r == handleServerSentEvent(ChunkText(Head(cs))) IN
         IF r.thrown = "none" THEN r.events \o PullRun(Tail(cs), ending)
         ELSE r.events \o ReadCatch(r.thrown)

\* Lines 138-153: what the callbacks of readNodeStream emit for the same body.
RECURSIVE PushRun(_, _)
PushRun(cs, ending) ==
    IF cs = <<>>
    THEN IF ending = "exhausted" THEN <<EndEvent>> ELSE <<>>
    ELSE handleServerSentEvent(ChunkText(Head(cs))).events \o PushRun(Tail(cs), ending)

\* The body has ended, by exhaustion or by a fault, and nobody aborted.
BodyOver == body \in {"closed", "ended", "errored"} /\ nAbort = 0

Ending == IF body = "errored" THEN "fault" ELSE "exhausted"

\* Each variant of the lifecycle model emits what its operator above says.
RunsAsModelled ==
    BodyOver => emitted = (IF env = "browser" THEN PullRun(delivered, Ending)
                           ELSE PushRun(delivered, Ending))

\* C20: when the body has ended, by exhaustion or by a fault, and nobody aborted,
\* what a listener registered before anything was emitted has received is what the
\* pull variant delivers for the chunks and ending of this body and also what the
\* push variant delivers for them.
C20_VariantsAgree ==
    BodyOver =>
        \A l \in CallerListeners :
            subs[l].early =>
                /\ EventsOf(Received(l)) = PullRun(delivered, Ending)
                /\ EventsOf(Received(l)) = PushRun(delivered, Ending)

\* The listeners the caller registered, kind by kind, in the order of the registry.
CallerRegistry ==
    [k \in Kinds |-> SelectSeq(registry[k], LAMBDA l : l # CleanupListener)]

\* C21: a step changes the registered listeners of the caller only if it is a
\* handle.on call, which appends the one new listener to the kinds it names and
\* emits nothing, or the cleanup, which removes all listeners and emits nothing;
\* a step that consumes a chunk, emits an event or is an abort() call leaves the
\* listeners and their order as they were.
C21_RegistryFrame ==
    [][ /\ CallerRegistry' # CallerRegistry =>
             \/ /\ nOn' = nOn + 1
                /\ \A k \in Kinds :
                      CallerRegistry'[k] \in
                          {CallerRegistry[k], Append(CallerRegistry[k], nOn + 1)}
             \/ /\ registry' = EmptyRegistry
                /\ timers' = timers - 1
        /\ (delivered' # delivered \/ emitted' # emitted \/ nAbort' # nAbort) =>
               CallerRegistry' = CallerRegistry
      ]_vars

\* C21 witness: two listeners are registered, a chunk was handled, abort() was
\* called, and the two are still registered, in their order, for every kind.
C21_Witness ==
    /\ nAbort >= 1 /\ delivered # <<>>
    /\ \A k \in Kinds : CallerRegistry[k] = <<1, 2>>

\* The lines of ids that are neither blank nor without the data: prefix.
NotIgnored(ids) == SelectSeq(ids, LAMBDA i : LineTable[i].class \notin {"blank", "foreign"})

\* C22: handling a text gives the events, and the exception if any, that handling
\* the same text without its blank lines and its lines that do not start with
\* data: gives; a text of such lines only gives no event and no exception.
C22_IgnoredLines ==
    kick = "parsed" =>
        LET r == handleServerSentEvent(JoinLines(NotIgnored(pLines))) IN
        /\ emitted = r.events
        /\ uncaught = (r.thrown # "none")
        /\ NotIgnored(pLines) = <<>> => (emitted = <<>> /\ ~uncaught)

\* C22 witness: an event: line, a STREAMING frame and a blank line were handled,
\* and one Message was emitted.
C22_Witness ==
    /\ kick = "parsed" /\ Len(pLines) = 3
    /\ LineTable[pLines[1]].class = "foreign"
    /\ LineTable[pLines[2]].kind = "message"
    /\ LineTable[pLines[3]].class = "blank"
    /\ KindsOf(emitted) = <<"message">> /\ ~uncaught

\* C23: as long as the caller does not hold the handle (streamConversation has not
\* been called, or its promise has not yet resumed the caller), the stream has
\* emitted nothing.
C23_NothingBeforeHandle == sc # "held" => emitted = <<>>

\* The events of frames among evs: no End and no Error built by a catch block.
PayloadEvents(evs) == SelectSeq(evs, LAMBDA e : e.kind # "end" /\ ~IsFault(e))

\* C24: for a body of well-formed data: lines only, when the pull variant is done
\* with it, the Message, Complete and Error events of frames it has emitted are
\* those of the lines, one each, in line order, whether the body came as one chunk
\* or cut in two at any byte.
C24_SplitIndependent ==
    (kick = "done" /\ FramesOf(pLines) = pLines) =>
        PayloadEvents(emitted) = FrameEvents(pLines)

\* The well-formed frames of each chunk of ChunkPool, as lines of LineTable; the
\* third chunk ends in a frame that is cut short.
ChunkFrames(c) ==
    CASE c = 1 -> <<1>>
      [] c = 2 -> <<3>>
      [] c = 3 -> <<4, 2>>

RECURSIVE FramesOfChunks(_)
FramesOfChunks(cs) ==
    IF cs = <<>> THEN <<>> ELSE ChunkFrames(Head(cs)) \o FramesOfChunks(Tail(cs))

\* C25: while the body is still being read and nobody has aborted, no End has been
\* emitted, whatever frames were handled, ERROR and DONE frames among them, and
\* the events emitted are those of all frames handled so far, one each, in order:
\* the frames that follow an ERROR or DONE frame in its chunk or in later chunks
\* are classified like any other.
C25_FrameDoesNotTerminate ==
    (nAbort = 0 /\ body \in {"reading", "flowing"}) =>
        /\ ~Terminated
        /\ emitted = FrameEvents(FramesOfChunks(delivered))

\* C25 witness: the push variant has handled the chunk with an ERROR frame and a
\* STREAMING frame and then a chunk with a DONE frame, has emitted Error, Message,
\* Complete, and the body still flows.
C25_Witness ==
    /\ nAbort = 0 /\ body = "flowing"
    /\ delivered = <<3, 2>>
    /\ KindsOf(emitted) = <<"error", "message", "complete">>

\* The Errors built by a catch block that the stream has emitted.
Faults == SelectSeq(emitted, IsFault)

\* C26: the stream has emitted at most one Error built by a catch block; and when
\* the read loop of the pull variant has failed (a read was rejected by a transport
\* fault, or handling a chunk threw), that one Error is the one of
\* readBrowserStream's catch, and the catch of the kicked-off task has added none.
C26_FaultReportedOnce ==
    /\ Len(Faults) <= 1
    /\ (env = "browser" /\ body \in {"errored", "left"}) =>
          (Len(Faults) = 1 /\ Faults[1].data.desc = "Failed to read stream")

\* C26 witness: handling a chunk threw in the read loop of the pull variant, and
\* the stream has emitted one Error of readBrowserStream's catch, then End.
C26_Witness ==
    /\ env = "browser" /\ body = "left" /\ nAbort = 0
    /\ Len(Faults) = 1
    /\ ReadFailureReported

====
